---------------------------- MODULE Spec2Model ----------------------------
(*************************************************************************)
(* A model of the pprof serializer of cloud-profiler-nodejs:             *)
(*   - the protocol-buffer wire encoder (bindings/proto.cc, repeated in  *)
(*     bindings/serialize.cc),                                           *)
(*   - the Profile builder (Profile::getStringId, getFunctionId,         *)
(*     getLocationId, addSample, addSampleType, encode),                 *)
(*   - the work-list walks serializeTimeProfile / serializeHeapProfile.  *)
(*                                                                       *)
(* A uint64_t is a tuple of WordBytes bytes, least significant first, so *)
(* that shifts, masks and casts act on the full 64-bit width.  An        *)
(* int64_t that the builder computes with (ids, line numbers, counts) is *)
(* an integer, converted by Int64ToUint64 where the code casts it.  A    *)
(* char of a buffer is its byte value 0..255; a std::string is the       *)
(* sequence of its bytes.                                                *)
(*************************************************************************)
EXTENDS Integers, Sequences, FiniteSets, TLC

VARIABLES
  p,         \* the Profile object (a record of its fields)
  argOrder,  \* order in which the build evaluates the arguments of a call
  last,      \* the last call made: operation, arguments, result
  b,         \* the byte buffer written by the encoder
  entries,   \* the walk's work list (std::vector<TimeEntry/HeapEntry>)
  pc,        \* position in the running function
  profile,   \* the input handed to serialize*Profile
  history    \* the calls made so far, oldest first

vars == <<p, argOrder, last, b, entries, pc, profile, history>>

-----------------------------------------------------------------------------
(* uint64_t arithmetic on little-endian byte tuples *)

WordBytes == 8

Byte == 0..255

Word == 1..WordBytes

\* the uint64_t with value n, for 0 <= n < 2^31
U64(n) ==
  [i \in Word |->
     CASE i = 1 -> n % 256
       [] i = 2 -> (n \div 256) % 256
       [] i = 3 -> (n \div 65536) % 256
       [] i = 4 -> (n \div 16777216) % 256
       [] OTHER -> 0]

\* the value of a uint64_t known to be below 2^31
Nat31(x) == x[1] + 256 * x[2] + 65536 * x[3] + 16777216 * x[4]

FitsNat31(x) == x[4] < 128 /\ \A i \in 5..WordBytes : x[i] = 0

U64Not(x) == [i \in Word |-> 255 - x[i]]

\* the conversion of a zigzag encoder: 0, -1, 1, -2, ... become 0, 1, 2, 3, ...
Int64ToUint64_ZigZag(v) == IF v >= 0 THEN U64(2 * v) ELSE U64((-2 * v) - 1)

\* (uint64_t)v for an int64_t v: two's complement, v < 0 becomes 2^64 + v
Int64ToUint64(v) == IF v >= 0 THEN U64(v) ELSE U64Not(U64(-v - 1))

\* x >= 128
U64Ge128(x) == x[1] >= 128 \/ \E i \in 2..WordBytes : x[i] # 0

\* x >> 7
U64Shr7(x) ==
  [i \in Word |->
     (x[i] \div 128) + (IF i < WordBytes THEN (x[i + 1] % 128) * 2 ELSE 0)]

\* bitwise or of two bytes
RECURSIVE ByteOr(_, _)
ByteOr(a, c) ==
  IF a = 0 THEN c
  ELSE IF c = 0 THEN a
  ELSE ((IF a % 2 = 1 \/ c % 2 = 1 THEN 1 ELSE 0)
        + 2 * ByteOr(a \div 2, c \div 2))

U64Or(x, y) == [i \in Word |-> ByteOr(x[i], y[i])]

U64Zero == [i \in Word |-> 0]

-----------------------------------------------------------------------------
(* The wire encoder: proto.cc *)

\* encodeVarint with the continuation bit left out
RECURSIVE encodeVarint_NoContinuation(_, _)
encodeVarint_NoContinuation(buf, x) ==
  IF U64Ge128(x)
    THEN encodeVarint_NoContinuation(Append(buf, x[1]), U64Shr7(x))
    ELSE Append(buf, x[1])

\* encodeVarint shifting by a whole byte
RECURSIVE encodeVarint_Shift8(_, _)
encodeVarint_Shift8(buf, x) ==
  IF U64Ge128(x)
    THEN encodeVarint_Shift8(Append(buf, ByteOr(x[1], 128)),
                             [i \in Word |-> IF i < WordBytes THEN x[i + 1] ELSE 0])
    ELSE Append(buf, x[1])

\* void encodeVarint(std::vector<char> &b, uint64_t x)
\*   a = x & 0xFF; y = a | 0x80; push_back((char)y); x >>= 7
RECURSIVE encodeVarint(_, _)
encodeVarint(buf, x) ==
  IF U64Ge128(x)
    THEN LET a == x[1]
             y == ByteOr(a, 128)
         IN  encodeVarint(Append(buf, y % 256), U64Shr7(x))
    ELSE Append(buf, x[1])

\* ((uint64_t)tag) << 3 | wire
FieldKey(tag, wire) == U64(tag * 8 + wire)

\* encodeLength writing a length one too large
encodeLength_OffByOne(buf, tag, len) ==
  encodeVarint(encodeVarint(buf, FieldKey(tag, 2)), U64(len + 1))

encodeLength(buf, tag, len) ==
  encodeVarint(encodeVarint(buf, FieldKey(tag, 2)), U64(len))

encodeUint64(buf, tag, x) ==
  encodeVarint(encodeVarint(buf, FieldKey(tag, 0)), x)

\* the loop "for u in x: encodeVarint(b1, *u)" over x[i..]
RECURSIVE PackVarints(_, _, _)
PackVarints(b1, x, i) ==
  IF i > Len(x) THEN b1 ELSE PackVarints(encodeVarint(b1, x[i]), x, i + 1)

\* the loop "for u in x: encodeUint64(b, tag, *u)" over x[i..]
RECURSIVE EachUint64(_, _, _, _)
EachUint64(buf, tag, x, i) ==
  IF i > Len(x) THEN buf ELSE EachUint64(encodeUint64(buf, tag, x[i]), tag, x, i + 1)

\* encodeUint64s packing from two elements on
encodeUint64s_Threshold1(buf, tag, x) ==
  IF Len(x) > 1
    THEN LET b1 == PackVarints(<<>>, x, 1)
         IN  encodeLength(buf, tag, Len(b1)) \o b1
    ELSE EachUint64(buf, tag, x, 1)

encodeUint64s(buf, tag, x) ==
  IF Len(x) > 2
    THEN LET b1 == PackVarints(<<>>, x, 1)
         IN  encodeLength(buf, tag, Len(b1)) \o b1
    ELSE EachUint64(buf, tag, x, 1)

\* encodeUint64Opt that also writes a zero
encodeUint64Opt_Always(buf, tag, x) == encodeUint64(buf, tag, x)

encodeUint64Opt(buf, tag, x) ==
  IF x = U64Zero THEN buf ELSE encodeUint64(buf, tag, x)

\* encodeInt64 leaving out a zero, as encodeInt64Opt does
encodeInt64_SkipZero(buf, tag, v) ==
  IF v = 0 THEN buf ELSE encodeUint64(buf, tag, Int64ToUint64(v))

encodeInt64(buf, tag, v) == encodeUint64(buf, tag, Int64ToUint64(v))

\* the loop "for u in x: encodeVarint(b1, *u)" over int64_t elements
RECURSIVE PackInt64Varints(_, _, _)
PackInt64Varints(b1, x, i) ==
  IF i > Len(x) THEN b1
  ELSE PackInt64Varints(encodeVarint(b1, Int64ToUint64(x[i])), x, i + 1)

RECURSIVE EachInt64(_, _, _, _)
EachInt64(buf, tag, x, i) ==
  IF i > Len(x) THEN buf ELSE EachInt64(encodeInt64(buf, tag, x[i]), tag, x, i + 1)

encodeInt64s(buf, tag, x) ==
  IF Len(x) > 2
    THEN LET b1 == PackInt64Varints(<<>>, x, 1)
         IN  encodeLength(buf, tag, Len(b1)) \o b1
    ELSE EachInt64(buf, tag, x, 1)

encodeInt64Opt(buf, tag, v) ==
  IF v = 0 THEN buf ELSE encodeInt64(buf, tag, v)

encodeString(buf, tag, x) == encodeLength(buf, tag, Len(x)) \o x

RECURSIVE EachString(_, _, _, _)
EachString(buf, tag, x, i) ==
  IF i > Len(x) THEN buf ELSE EachString(encodeString(buf, tag, x[i]), tag, x, i + 1)

encodeStrings(buf, tag, x) == EachString(buf, tag, x, 1)

encodeBool(buf, tag, x) == encodeUint64(buf, tag, IF x THEN U64(1) ELSE U64(0))

encodeBoolOpt(buf, tag, x) == IF x THEN encodeUint64(buf, tag, U64(1)) ELSE buf

\* encodeMessage(b, tag, m): b1 is the scratch buffer after m->encode(b1)
encodeMessage(buf, tag, b1) == encodeLength(buf, tag, Len(b1)) \o b1

-----------------------------------------------------------------------------
(* Strings: a std::string is the sequence of its bytes *)

\* "wall"
StrWall == <<119, 97, 108, 108>>

\* "microseconds"
StrMicroseconds == <<109, 105, 99, 114, 111, 115, 101, 99, 111, 110, 100, 115>>

\* "sample"
StrSample == <<115, 97, 109, 112, 108, 101>>

\* "count"
StrCount == <<99, 111, 117, 110, 116>>

\* "objects"
StrObjects == <<111, 98, 106, 101, 99, 116, 115>>

\* "space"
StrSpace == <<115, 112, 97, 99, 101>>

\* "bytes"
StrBytes == <<98, 121, 116, 101, 115>>

\* "allocation"
StrAllocation == <<97, 108, 108, 111, 99, 97, 116, 105, 111, 110>>

\* std::to_string of a non-negative value
RECURSIVE Digits(_)
Digits(n) == IF n < 10 THEN <<48 + n>> ELSE Append(Digits(n \div 10), 48 + (n % 10))

\* std::to_string(int64_t)
to_string(v) == IF v < 0 THEN <<45>> \o Digits(-v) ELSE Digits(v)

\* std::map<std::string, int64_t>: a function on the keys present
EmptyMap == [k \in {} |-> 0]

MapInsert(m, k, v) == IF k \in DOMAIN m THEN m ELSE (k :> v) @@ m

-----------------------------------------------------------------------------
(* The message classes of serialize.cc and their encode methods *)

ValueType(typeX, unitX) == [typeX |-> typeX, unitX |-> unitX]

ValueType_encode(buf, v) ==
  encodeInt64Opt(encodeInt64Opt(buf, 1, v.typeX), 2, v.unitX)

\* Label with the second and third argument taken for each other
Label_NumAsStr(keyX, strX, num, unitX) ==
  [keyX |-> keyX, strX |-> num, num |-> strX, unitX |-> unitX]

Label(keyX, strX, num, unitX) ==
  [keyX |-> keyX, strX |-> strX, num |-> num, unitX |-> unitX]

Label_encode(buf, l) ==
  LET b1 == encodeInt64Opt(buf, 1, l.keyX)
      b2 == encodeInt64Opt(b1, 2, l.strX)
      b3 == encodeInt64Opt(b2, 3, l.num)
  IN  encodeInt64Opt(b3, 4, l.unitX)

Mapping_encode(buf, m) ==
  LET b1 == encodeUint64Opt(buf, 1, U64(m.id))
      b2 == encodeUint64Opt(b1, 2, U64(m.start))
      b3 == encodeUint64Opt(b2, 3, U64(m.limit))
      b4 == encodeUint64Opt(b3, 4, U64(m.offset))
      b5 == encodeInt64Opt(b4, 5, m.fileX)
      b6 == encodeInt64Opt(b5, 6, m.buildIDX)
      b7 == encodeBoolOpt(b6, 7, m.hasFunctions)
      b8 == encodeBoolOpt(b7, 8, m.hasFilenames)
      b9 == encodeBoolOpt(b8, 9, m.hasLineNumbers)
  IN  encodeBoolOpt(b9, 10, m.hasInlineFrames)

Line(functionID, line) == [functionID |-> functionID, line |-> line]

Line_encode(buf, l) ==
  encodeInt64Opt(encodeUint64Opt(buf, 1, Int64ToUint64(l.functionID)), 2, l.line)

ProfileFunction(id, nameX, systemNameX, filenameX, startLine) ==
  [id |-> id, nameX |-> nameX, systemNameX |-> systemNameX,
   filenameX |-> filenameX, startLine |-> startLine]

ProfileFunction_encode(buf, f) ==
  LET b1 == encodeUint64Opt(buf, 1, Int64ToUint64(f.id))
      b2 == encodeInt64Opt(b1, 2, f.nameX)
      b3 == encodeInt64Opt(b2, 3, f.systemNameX)
      b4 == encodeInt64Opt(b3, 4, f.filenameX)
  IN  encodeInt64Opt(b4, 5, f.startLine)

ProfileLocation(id, mappingID, address, line, isFolded) ==
  [id |-> id, mappingID |-> mappingID, address |-> address,
   line |-> line, isFolded |-> isFolded]

\* the loop "for x in xs: encodeMessage(b, tag, &*x)": scratch[i] is the
\* buffer x->encode filled for the i-th element
RECURSIVE EachMessage(_, _, _, _)
EachMessage(buf, tag, scratch, i) ==
  IF i > Len(scratch) THEN buf
  ELSE EachMessage(encodeMessage(buf, tag, scratch[i]), tag, scratch, i + 1)

ProfileLocation_encode(buf, l) ==
  LET b1 == encodeUint64Opt(buf, 1, U64(l.id))
      b2 == encodeInt64Opt(b1, 2, l.mappingID)
      b3 == encodeInt64Opt(b2, 3, l.address)
      b4 == EachMessage(b3, 4, [i \in 1..Len(l.line) |-> Line_encode(<<>>, l.line[i])], 1)
  IN  encodeBoolOpt(b4, 5, l.isFolded)

Sample(locationID, value, label) ==
  [locationID |-> locationID, value |-> value, label |-> label]

Sample_encode(buf, s) ==
  LET b1 == encodeUint64s(buf, 1, [i \in 1..Len(s.locationID) |-> U64(s.locationID[i])])
      b2 == encodeInt64s(b1, 2, s.value)
  IN  EachMessage(b2, 3, [i \in 1..Len(s.label) |-> Label_encode(<<>>, s.label[i])], 1)

-----------------------------------------------------------------------------
(* Profile: the builder.  An operation on Profile P yields [p, ret]: the  *)
(* Profile after the call and the value returned.                         *)

ArgOrders == {"left-to-right", "right-to-left"}

\* getStringId without the lookup: every call appends
Profile_getStringId_NoLookup(P, s) ==
  LET id == Len(P.strings)
  IN  [p |-> [P EXCEPT !.stringIdMap = MapInsert(@, s, id),
                       !.strings = Append(@, s)],
       ret |-> id]

\* getStringId putting a new string at the front of the table
Profile_getStringId_PushFront(P, s) ==
  IF s \in DOMAIN P.stringIdMap
    THEN [p |-> P, ret |-> P.stringIdMap[s]]
    ELSE LET id == Len(P.strings)
         IN  [p |-> [P EXCEPT !.stringIdMap = MapInsert(@, s, id),
                              !.strings = <<s>> \o @],
              ret |-> id]

Profile_getStringId(P, s) ==
  IF s \in DOMAIN P.stringIdMap
    THEN [p |-> P, ret |-> P.stringIdMap[s]]
    ELSE LET id == Len(P.strings)
         IN  [p |-> [P EXCEPT !.stringIdMap = MapInsert(@, s, id),
                              !.strings = Append(@, s)],
              ret |-> id]

\* two getStringId calls that are arguments of one call: f(getStringId(s1),
\* getStringId(s2)); the build picks which is evaluated first
TwoStringIds(P, s1, s2) ==
  IF argOrder = "left-to-right"
    THEN LET r1 == Profile_getStringId(P, s1)
             r2 == Profile_getStringId(r1.p, s2)
         IN  [p |-> r2.p, first |-> r1.ret, second |-> r2.ret]
    ELSE LET r2 == Profile_getStringId(P, s2)
             r1 == Profile_getStringId(r2.p, s1)
         IN  [p |-> r1.p, first |-> r1.ret, second |-> r2.ret]

\* the members before the constructor body runs: empty containers
EmptyProfile ==
  [sampleType |-> <<>>, location |-> <<>>, sample |-> <<>>, mapping |-> <<>>,
   function |-> <<>>, strings |-> <<>>,
   dropFramesX |-> 0, keepFramesX |-> 0, timeNanos |-> 0, durationNanos |-> 0,
   periodType |-> ValueType(0, 0), period |-> 0, commentX |-> <<>>,
   defaultSampleTypeX |-> 0,
   functionIdMap |-> EmptyMap, locationIdMap |-> EmptyMap, stringIdMap |-> EmptyMap]

Profile_Profile(periodType, periodUnit, period, timeNanos, durationNanos, dropFrames, keepFramesX) ==
  LET r0 == Profile_getStringId(EmptyProfile, <<>>)
      r1 == TwoStringIds(r0.p, periodType, periodUnit)
      r2 == Profile_getStringId(r1.p, dropFrames)
      r3 == Profile_getStringId(r2.p, keepFramesX)
  IN  [r3.p EXCEPT !.periodType = ValueType(r1.first, r1.second),
                   !.period = period,
                   !.timeNanos = timeNanos,
                   !.durationNanos = durationNanos,
                   !.dropFramesX = r2.ret,
                   !.keepFramesX = r3.ret,
                   !.defaultSampleTypeX = 0]

Profile_addSampleType(P, type, unit) ==
  LET r1 == Profile_getStringId(P, type)
      r2 == Profile_getStringId(r1.p, unit)
  IN  [r2.p EXCEPT !.sampleType = Append(@, ValueType(r1.ret, r2.ret))]

FunctionKey(node) == to_string(node.fileID) \o <<58>> \o node.name

LocationKey(node) ==
  to_string(node.fileID) \o <<58>> \o to_string(node.lineNumber) \o <<58>>
    \o to_string(node.columnNumber) \o <<58>> \o node.name

\* getFunctionId numbering from 0: id = function.size()
Profile_getFunctionId_ZeroBased(P, node) ==
  LET key == FunctionKey(node)
  IN  IF key \in DOMAIN P.functionIdMap
        THEN [p |-> P, ret |-> P.functionIdMap[key]]
        ELSE LET r1 == Profile_getStringId(P, node.name)
                 r2 == Profile_getStringId(r1.p, node.filename)
                 id == Len(r2.p.function)
                 f  == ProfileFunction(id, r1.ret, r1.ret, r2.ret, node.lineNumber)
             IN  [p |-> [r2.p EXCEPT !.function = Append(@, f)], ret |-> id]

Profile_getFunctionId(P, node) ==
  LET key == FunctionKey(node)
  IN  IF key \in DOMAIN P.functionIdMap
        THEN [p |-> P, ret |-> P.functionIdMap[key]]
        ELSE LET r1 == Profile_getStringId(P, node.name)
                 r2 == Profile_getStringId(r1.p, node.filename)
                 id == Len(r2.p.function) + 1
                 f  == ProfileFunction(id, r1.ret, r1.ret, r2.ret, node.lineNumber)
             IN  [p |-> [r2.p EXCEPT !.function = Append(@, f)], ret |-> id]

\* getLine with the arguments of Line(...) taken for each other
Profile_getLine_Swapped(P, node) ==
  LET r == Profile_getFunctionId(P, node)
  IN  [p |-> r.p, ret |-> Line(node.lineNumber, r.ret)]

Profile_getLine(P, node) ==
  LET r == Profile_getFunctionId(P, node)
  IN  [p |-> r.p, ret |-> Line(r.ret, node.lineNumber)]

Profile_getLocationId(P, node) ==
  LET key == LocationKey(node)
  IN  IF key \in DOMAIN P.functionIdMap
        THEN [p |-> P, ret |-> P.functionIdMap[key]]
        ELSE LET id == Len(P.location) + 1
                 r  == Profile_getLine(P, node)
                 l  == ProfileLocation(id, 0, 0, <<r.ret>>, FALSE)
             IN  [p |-> [r.p EXCEPT !.location = Append(@, l)], ret |-> id]

\* HeapNode::getSamples: one Sample per allocation record; [p, ret] with
\* ret the vector of Samples
RECURSIVE HeapNode_getSamples(_, _, _, _, _)
HeapNode_getSamples(P, node, stack, i, samples) ==
  IF i > Len(node.allocations) THEN [p |-> P, ret |-> samples]
  ELSE LET allocation == node.allocations[i]
           r == TwoStringIds(P, StrAllocation, StrBytes)
           labels == <<Label(r.first, 0, allocation.size, r.second)>>
           vals == <<allocation.count, allocation.size * allocation.count>>
           s == Sample(stack, vals, labels)
       IN  HeapNode_getSamples(r.p, node, stack, i + 1, Append(samples, s))

\* TimeNode::getSamples with the hit count as its only value
TimeNode_getSamples_OneValue(P, node, stack) ==
  [p |-> P, ret |-> <<Sample(stack, <<node.hitCount>>, <<>>)>>]

TimeNode_getSamples(P, node, stack) ==
  LET hitCount == node.hitCount
      vals == <<hitCount, hitCount * node.samplingIntervalMicros>>
      s == Sample(stack, vals, <<>>)
  IN  [p |-> P, ret |-> <<s>>]

\* node->getSamples(*this, stack): virtual dispatch on the node's class
Node_getSamples(P, node, stack) ==
  IF node.class = "HeapNode"
    THEN HeapNode_getSamples(P, node, stack, 1, <<>>)
    ELSE TimeNode_getSamples(P, node, stack)

\* addSample putting the node's location at the end of the stack
Profile_addSample_PushBack(P, node, stack) ==
  LET r1 == Profile_getLocationId(P, node)
      loc == r1.ret
      stack1 == stack \o <<loc>>
      r2 == Node_getSamples(r1.p, node, stack1)
  IN  [p |-> [r2.p EXCEPT !.sample = @ \o r2.ret], ret |-> loc]

Profile_addSample(P, node, stack) ==
  LET r1 == Profile_getLocationId(P, node)
      loc == r1.ret
      stack1 == <<loc>> \o stack
      r2 == Node_getSamples(r1.p, node, stack1)
  IN  [p |-> [r2.p EXCEPT !.sample = @ \o r2.ret], ret |-> loc]

\* encode taking its buffer by value: the caller's vector is left as it was
Profile_encode_ByValue(buf, P) == buf

Profile_encode(buf, P) ==
  LET b1 == EachMessage(buf, 1,
              [i \in 1..Len(P.sampleType) |-> ValueType_encode(<<>>, P.sampleType[i])], 1)
      b2 == EachMessage(b1, 2,
              [i \in 1..Len(P.sample) |-> Sample_encode(<<>>, P.sample[i])], 1)
      b3 == EachMessage(b2, 3,
              [i \in 1..Len(P.mapping) |-> Mapping_encode(<<>>, P.mapping[i])], 1)
      b4 == EachMessage(b3, 4,
              [i \in 1..Len(P.location) |-> ProfileLocation_encode(<<>>, P.location[i])], 1)
      b5 == EachMessage(b4, 5,
              [i \in 1..Len(P.function) |-> ProfileFunction_encode(<<>>, P.function[i])], 1)
      b6 == encodeStrings(b5, 6, P.strings)
      b7 == encodeInt64Opt(b6, 7, P.dropFramesX)
      b8 == encodeInt64Opt(b7, 8, P.keepFramesX)
      b9 == encodeInt64Opt(b8, 9, P.timeNanos)
      b10 == encodeInt64Opt(b9, 10, P.durationNanos)
      b11 == IF P.periodType.typeX # 0 \/ P.periodType.unitX # 0
               THEN encodeMessage(b10, 11, ValueType_encode(<<>>, P.periodType))
               ELSE b10
      b12 == encodeInt64Opt(b11, 12, P.period)
      b13 == encodeInt64s(b12, 13, P.commentX)
      \* each statement finds the buffer the ones before it left: b2, b5 and
      \* b8 are computed before what follows them (this also keeps the
      \* evaluation shallow); the condition holds always
  IN  IF Len(b2) >= 0 /\ Len(b5) >= 0 /\ Len(b8) >= 0
        THEN encodeInt64(b13, 14, P.defaultSampleTypeX)
        ELSE buf

-----------------------------------------------------------------------------
(* The nodes handed to the builder.  A v8 node carries the identity fields *)
(* and both kinds of payload; HeapNode / TimeNode wrap it as the classes   *)
(* of serialize.cc do.                                                     *)

\* "foo"
StrFoo == <<102, 111, 111>>

\* "bar"
StrBar == <<98, 97, 114>>

\* "a.js"
StrFileA == <<97, 46, 106, 115>>

\* "x"
StrX == <<120>>

V8Foo ==
  [name |-> StrFoo, filename |-> StrFileA, fileID |-> 1, lineNumber |-> 10,
   columnNumber |-> 0, hitCount |-> 5,
   allocations |-> <<[size |-> 8, count |-> 2]>>]

\* the same function as V8Foo, at another line
V8FooLine12 ==
  [name |-> StrFoo, filename |-> StrFileA, fileID |-> 1, lineNumber |-> 12,
   columnNumber |-> 0, hitCount |-> 0, allocations |-> <<>>]

V8Bar ==
  [name |-> StrBar, filename |-> StrFileA, fileID |-> 1, lineNumber |-> 20,
   columnNumber |-> 4, hitCount |-> 3,
   allocations |-> <<[size |-> 16, count |-> 1], [size |-> 8, count |-> 3]>>]

V8Nodes == {V8Foo, V8FooLine12, V8Bar}

HeapNode(node) ==
  [class |-> "HeapNode", name |-> node.name, filename |-> node.filename,
   fileID |-> node.fileID, lineNumber |-> node.lineNumber,
   columnNumber |-> node.columnNumber, allocations |-> node.allocations]

\* the constructor keeps the interval as an int; the intervals of the model
\* are within int's range, where the conversion keeps the value
TimeNode(node, samplingIntervalMicros) ==
  [class |-> "TimeNode", name |-> node.name, filename |-> node.filename,
   fileID |-> node.fileID, lineNumber |-> node.lineNumber,
   columnNumber |-> node.columnNumber, hitCount |-> node.hitCount,
   samplingIntervalMicros |-> samplingIntervalMicros]

-----------------------------------------------------------------------------
(* Spec: a Profile is constructed, then its methods are called in any     *)
(* order, at most MaxCalls times; encode may end the build.               *)

MaxCalls == 2

\* <<periodType, periodUnit, period, timeNanos, durationNanos, dropFrames,
\*   keepFramesX>>
CtorInputs ==
  { <<StrWall, StrMicroseconds, 1000, 5, 2000, <<>>, <<>> >>,
    <<StrSpace, StrBytes, 512, 0, 0, <<>>, <<>> >>,
    << <<>>, <<>>, 0, 0, 0, <<>>, <<>> >>,
    << <<>>, StrBytes, 0, 0, 0, StrX, <<>> >>,
    <<StrWall, <<>>, 0, 7, 0, <<>>, StrX>>,
    << <<>>, <<>>, 0, 0, -1, StrFoo, StrX>> }

SampleTypeInputs == { <<StrSample, StrCount>>, <<StrSpace, StrBytes>> }

StringIdInputs == { <<>>, StrFoo, StrX }

SampleNodeInputs == { TimeNode(V8Foo, 1000), HeapNode(V8Bar), HeapNode(V8FooLine12) }

\* the stacks addSample is handed: location ids assigned so far
StackInputs(P) ==
  IF Len(P.location) > 0 THEN { <<>>, <<Len(P.location)>> } ELSE { <<>> }

\* no call made yet
NoCall == [op |-> "none", tag |-> 0, x |-> 0, pre |-> <<>>, ret |-> 0]

ApiCall(op, x, ret) == [op |-> op, tag |-> 0, x |-> x, pre |-> p, ret |-> ret]

Init ==
  /\ argOrder \in ArgOrders
  /\ \E a \in CtorInputs :
       p = Profile_Profile(a[1], a[2], a[3], a[4], a[5], a[6], a[7])
  /\ last = NoCall
  /\ history = <<>>
  /\ b = <<>>
  /\ pc = "built"
  /\ entries = <<>>
  /\ profile = <<>>

CanCall == pc = "built" /\ Len(history) < MaxCalls

Record(call) ==
  /\ last' = call
  /\ history' = Append(history, [op |-> call.op, x |-> call.x, ret |-> call.ret])
  /\ UNCHANGED <<argOrder, b, entries, pc, profile>>

Do_addSampleType ==
  /\ CanCall
  /\ \E t \in SampleTypeInputs :
       /\ p' = Profile_addSampleType(p, t[1], t[2])
       /\ Record(ApiCall("addSampleType", t, 0))

Do_getStringId ==
  /\ CanCall
  /\ \E s \in StringIdInputs :
       LET r == Profile_getStringId(p, s)
       IN  /\ p' = r.p
           /\ Record(ApiCall("getStringId", s, r.ret))

Do_getFunctionId ==
  /\ CanCall
  /\ \E n \in V8Nodes :
       LET r == Profile_getFunctionId(p, HeapNode(n))
       IN  /\ p' = r.p
           /\ Record(ApiCall("getFunctionId", HeapNode(n), r.ret))

Do_getLocationId ==
  /\ CanCall
  /\ \E n \in V8Nodes :
       LET r == Profile_getLocationId(p, HeapNode(n))
       IN  /\ p' = r.p
           /\ Record(ApiCall("getLocationId", HeapNode(n), r.ret))

Do_addSample ==
  /\ CanCall
  /\ \E node \in SampleNodeInputs, stack \in StackInputs(p) :
       LET r == Profile_addSample(p, node, stack)
       IN  /\ p' = r.p
           /\ Record(ApiCall("addSample", [node |-> node, stack |-> stack], r.ret))

Do_encode ==
  /\ pc = "built"
  /\ b' = Profile_encode(<<>>, p)
  /\ pc' = "encoded"
  /\ UNCHANGED <<p, argOrder, last, entries, profile, history>>

Next ==
  \/ Do_addSampleType
  \/ Do_getStringId
  \/ Do_getFunctionId
  \/ Do_getLocationId
  \/ Do_addSample
  \/ Do_encode

Spec == Init /\ [][Next]_vars

-----------------------------------------------------------------------------
(* SpecWalk: serializeTimeProfile / serializeHeapProfile on a tree.       *)
(* The tree's nodes are 1..Len(parent), 0 is the root; parent[i] < i, and *)
(* the children of a node, in their order, are its nodes in ascending     *)
(* order.  Numbering a tree breadth first gives every ordered tree once:  *)
(* parent is then non-decreasing.                                         *)

MaxNodes == 3

ParentSeqs(n) ==
  {f \in [1..n -> 0..(n - 1)] :
     /\ \A i \in 1..n : f[i] < i
     /\ \A i \in 1..(n - 1) : f[i] <= f[i + 1]}

Trees ==
  UNION {{[parent |-> f, node |-> g] : f \in ParentSeqs(n), g \in [1..n -> V8Nodes]} :
         n \in 0..MaxNodes}

\* <<interval, startTimeNanos, GetEndTime() - GetStartTime()>>
RunInputs == { <<1000, 5, 2>>, <<0, 0, 0>> }

\* node->GetChild(0..count-1) / node->children: the children of x in order
RECURSIVE ChildrenFrom(_, _, _)
ChildrenFrom(parent, x, i) ==
  IF i > Len(parent) THEN <<>>
  ELSE (IF parent[i] = x THEN <<i>> ELSE <<>>) \o ChildrenFrom(parent, x, i + 1)

\* the child loop stopping after the first child
Children_OnlyFirst(x) ==
  LET all == ChildrenFrom(profile.parent, x, 1)
  IN  IF Len(all) > 1 THEN <<all[1]>> ELSE all

Children(x) == ChildrenFrom(profile.parent, x, 1)

\* the push loop without "child.stack = stack": every child gets an empty stack
PushChildren_NoStack(es, children, stack) ==
  es \o [i \in 1..Len(children) |-> [node |-> children[i], stack |-> <<>>]]

\* the push loop handing the children the stack without the node's own id
PushChildren_WithoutLoc(es, children, stack) ==
  es \o [i \in 1..Len(children) |->
           [node |-> children[i],
            stack |-> IF stack = <<>> THEN <<>> ELSE Tail(stack)]]

\* entries.push_back(child) for each child, child.stack = stack
PushChildren(es, children, stack) ==
  es \o [i \in 1..Len(children) |-> [node |-> children[i], stack |-> stack]]

InitWalk ==
  /\ argOrder \in ArgOrders
  /\ \E t \in Trees, r \in RunInputs, k \in {"time", "heap"} :
       profile = [kind |-> k, parent |-> t.parent, node |-> t.node,
                  interval |-> r[1], startTimeNanos |-> r[2], runMicros |-> r[3]]
  /\ pc = "start"
  /\ p = EmptyProfile
  /\ entries = <<>>
  /\ b = <<>>
  /\ last = NoCall
  /\ history = <<>>

\* what one loop iteration did: the node popped, the stack it came with,
\* the id addSample returned and the Samples it appended
Iteration(entry, loc, P) ==
  [node |-> entry.node, stack |-> entry.stack, loc |-> loc,
   first |-> Len(p.sample) + 1, count |-> Len(P.sample) - Len(p.sample)]

\* serializeTimeProfile up to the loop: the Profile, its sample types, the
\* root's children on the work list
Time_Begin ==
  /\ pc = "start"
  /\ profile.kind = "time"
  /\ LET durationNanos == profile.runMicros * 1000
         p0 == Profile_Profile(StrWall, StrMicroseconds, profile.interval,
                               profile.startTimeNanos, durationNanos, <<>>, <<>>)
         p1 == Profile_addSampleType(p0, StrSample, StrCount)
         p2 == Profile_addSampleType(p1, StrWall, StrMicroseconds)
     IN  /\ p' = p2
         /\ entries' = PushChildren(<<>>, Children(0), <<>>)
  /\ pc' = "loop"
  /\ UNCHANGED <<argOrder, last, b, profile, history>>

\* one iteration of while (entries.size() > 0)
Time_Iterate ==
  /\ pc = "loop"
  /\ profile.kind = "time"
  /\ Len(entries) > 0
  /\ LET entry == entries[Len(entries)]
         popped == SubSeq(entries, 1, Len(entries) - 1)
         node == TimeNode(profile.node[entry.node], profile.interval)
         r == Profile_addSample(p, node, entry.stack)
         loc == r.ret
         stack == <<loc>> \o entry.stack
     IN  /\ p' = r.p
         /\ entries' = PushChildren(popped, Children(entry.node), stack)
         /\ history' = Append(history, Iteration(entry, loc, r.p))
  /\ UNCHANGED <<argOrder, last, b, pc, profile>>

\* after the loop: p.encode(b); return b
Time_Finish ==
  /\ pc = "loop"
  /\ profile.kind = "time"
  /\ Len(entries) = 0
  /\ b' = Profile_encode(<<>>, p)
  /\ pc' = "done"
  /\ UNCHANGED <<p, argOrder, last, entries, profile, history>>

Heap_Begin ==
  /\ pc = "start"
  /\ profile.kind = "heap"
  /\ LET p0 == Profile_Profile(StrSpace, StrBytes, profile.interval,
                               profile.startTimeNanos, 0, <<>>, <<>>)
         p1 == Profile_addSampleType(p0, StrObjects, StrCount)
         p2 == Profile_addSampleType(p1, StrSpace, StrBytes)
     IN  /\ p' = p2
         /\ entries' = PushChildren(<<>>, Children(0), <<>>)
  /\ pc' = "loop"
  /\ UNCHANGED <<argOrder, last, b, profile, history>>

Heap_Iterate ==
  /\ pc = "loop"
  /\ profile.kind = "heap"
  /\ Len(entries) > 0
  /\ LET entry == entries[Len(entries)]
         popped == SubSeq(entries, 1, Len(entries) - 1)
         node == HeapNode(profile.node[entry.node])
         r == Profile_addSample(p, node, entry.stack)
         loc == r.ret
         stack == <<loc>> \o entry.stack
     IN  /\ p' = r.p
         /\ entries' = PushChildren(popped, Children(entry.node), stack)
         /\ history' = Append(history, Iteration(entry, loc, r.p))
  /\ UNCHANGED <<argOrder, last, b, pc, profile>>

Heap_Finish ==
  /\ pc = "loop"
  /\ profile.kind = "heap"
  /\ Len(entries) = 0
  /\ b' = Profile_encode(<<>>, p)
  /\ pc' = "done"
  /\ UNCHANGED <<p, argOrder, last, entries, profile, history>>

NextWalk ==
  \/ Time_Begin
  \/ Time_Iterate
  \/ Time_Finish
  \/ Heap_Begin
  \/ Heap_Iterate
  \/ Heap_Finish

SpecWalk == InitWalk /\ [][NextWalk]_vars

\* ENABLED <<NextWalk>>_vars: the walk has a next step, which changes pc or
\* history, exactly until it has returned
WalkEnabled == pc # "done"

\* the walk is one sequential call: whenever it has a next step it takes
\* it.  This is weak fairness of NextWalk, []<>(~ENABLED <<NextWalk>>_vars)
\* \/ []<><<NextWalk>>_vars, with the ENABLED written as WalkEnabled.
SpecWalkFair == SpecWalk /\ ([]<>(~WalkEnabled) \/ []<><<NextWalk>>_vars)

-----------------------------------------------------------------------------
(* A varint reader, as the protobuf wire format defines it: the low 7    *)
(* bits of each byte, least significant group first, up to the first byte *)
(* with the high bit clear; at most 10 bytes; bits beyond 64 are dropped. *)

\* value is group(pos) | (value of the rest << 7): the shift moves bit 0 of
\* each byte to bit 7 and bits 1..7 of the byte below to bits 0..6, drops what
\* leaves the top byte, and the group fills the 7 bits freed in the low byte
RECURSIVE ReadVarintFrom(_, _, _)
ReadVarintFrom(buf, pos, n) ==
  IF pos > Len(buf) \/ n >= 10
    THEN [ok |-> FALSE, value |-> U64Zero, next |-> pos]
    ELSE IF buf[pos] < 128
      THEN [ok |-> TRUE, value |-> U64(buf[pos]), next |-> pos + 1]
      ELSE \* the rest is bound once
           CHOOSE out \in
             { [ok |-> rest.ok,
                value |-> [i \in Word |->
                             ((rest.value[i] % 2) * 128)
                               + (IF i > 1 THEN rest.value[i - 1] \div 2
                                  ELSE buf[pos] % 128)],
                next |-> rest.next]
               : rest \in {ReadVarintFrom(buf, pos + 1, n + 1)} } : TRUE

ReadVarint(buf, pos) == ReadVarintFrom(buf, pos, 0)

\* n varints read one after the other from pos
RECURSIVE ReadVarints(_, _, _, _)
ReadVarints(buf, pos, n, values) ==
  IF n = 0 THEN [ok |-> TRUE, values |-> values, next |-> pos]
  ELSE LET r == ReadVarint(buf, pos)
       IN  IF r.ok THEN ReadVarints(buf, r.next, n - 1, Append(values, r.value))
           ELSE [ok |-> FALSE, values |-> values, next |-> pos]

\* the encoder the format describes: while value >= 128 emit
\* (value & 0x7F) | 0x80 and shift right by 7, then emit the rest
RECURSIVE ReferenceVarint(_, _)
ReferenceVarint(buf, x) ==
  IF U64Ge128(x)
    THEN ReferenceVarint(Append(buf, (x[1] % 128) + 128), U64Shr7(x))
    ELSE Append(buf, x[1])

-----------------------------------------------------------------------------
(* SpecEnc: one call of a wire-encoder function on a caller's buffer *)

MaxSmall == 300

MaxLen == 3

\* 2^k and 2^k - 1 as uint64_t, 0 <= k <= 64 (2^64 wraps to 0)
U64Pow2(k) == [i \in Word |-> IF i = (k \div 8) + 1 THEN 2 ^ (k % 8) ELSE 0]

U64Pow2Minus1(k) ==
  [i \in Word |->
     IF i <= k \div 8 THEN 255
     ELSE IF i = (k \div 8) + 1 THEN (2 ^ (k % 8)) - 1 ELSE 0]

VarintInputs ==
  {U64(n) : n \in 0..MaxSmall}
    \cup {U64Pow2(k) : k \in 0..63}
    \cup {U64Pow2Minus1(k) : k \in 0..64}
    \cup {U64Or(U64Pow2(k), U64(1)) : k \in 0..63}
    \cup {[i \in Word |-> 170], [i \in Word |-> 85], [i \in Word |-> 128]}

TagInputs == {1, 14, 16, 2048}

Uint64Inputs ==
  {U64(0), U64(1), U64(127), U64(128), U64(MaxSmall), U64Pow2(63), U64Pow2Minus1(64)}

Int64Inputs == {0, 1, -1, 127, 128, -128, MaxSmall}

Uint64SeqElems == {U64(0), U64(1), U64(MaxSmall), U64Pow2Minus1(64)}

Int64SeqElems == {0, 1, -1, MaxSmall}

SeqsUpTo(S, n) == UNION {[1..k -> S] : k \in 0..n}

\* what the caller's buffer holds before the call
PriorBuffers == {<<>>, <<8, 150, 1>>, <<10, 1, 255>>}

StringInputs == {<<>>, StrWall, StrMicroseconds, <<0, 255, 128>>}

MessageInputs ==
  {ValueType(0, 0), ValueType(1, 2), ValueType(0, MaxSmall), ValueType(-1, 0)}

Call(op, tag, x) == [op |-> op, tag |-> tag, x |-> x, pre |-> b, ret |-> 0]

InitEnc ==
  /\ b \in PriorBuffers
  /\ last = NoCall
  /\ pc = "encoder"
  /\ p = EmptyProfile
  /\ argOrder = "left-to-right"
  /\ entries = <<>>
  /\ profile = <<>>
  /\ history = <<>>

EncFrame == UNCHANGED <<p, argOrder, entries, pc, profile, history>>

Call_encodeVarint ==
  /\ last.op = "none"
  /\ \E x \in VarintInputs :
       /\ b' = encodeVarint(b, x)
       /\ last' = Call("encodeVarint", 0, x)
  /\ EncFrame

Call_encodeLength ==
  /\ last.op = "none"
  /\ \E tag \in TagInputs, len \in {0, 1, 127, 128, MaxSmall} :
       /\ b' = encodeLength(b, tag, len)
       /\ last' = Call("encodeLength", tag, len)
  /\ EncFrame

Call_encodeUint64 ==
  /\ last.op = "none"
  /\ \E tag \in TagInputs, x \in Uint64Inputs :
       /\ b' = encodeUint64(b, tag, x)
       /\ last' = Call("encodeUint64", tag, x)
  /\ EncFrame

Call_encodeUint64s ==
  /\ last.op = "none"
  /\ \E tag \in TagInputs, x \in SeqsUpTo(Uint64SeqElems, MaxLen) :
       /\ b' = encodeUint64s(b, tag, x)
       /\ last' = Call("encodeUint64s", tag, x)
  /\ EncFrame

Call_encodeUint64Opt ==
  /\ last.op = "none"
  /\ \E tag \in TagInputs, x \in Uint64Inputs :
       /\ b' = encodeUint64Opt(b, tag, x)
       /\ last' = Call("encodeUint64Opt", tag, x)
  /\ EncFrame

Call_encodeInt64 ==
  /\ last.op = "none"
  /\ \E tag \in TagInputs, v \in Int64Inputs :
       /\ b' = encodeInt64(b, tag, v)
       /\ last' = Call("encodeInt64", tag, v)
  /\ EncFrame

Call_encodeInt64s ==
  /\ last.op = "none"
  /\ \E tag \in TagInputs, x \in SeqsUpTo(Int64SeqElems, MaxLen) :
       /\ b' = encodeInt64s(b, tag, x)
       /\ last' = Call("encodeInt64s", tag, x)
  /\ EncFrame

Call_encodeInt64Opt ==
  /\ last.op = "none"
  /\ \E tag \in TagInputs, v \in Int64Inputs :
       /\ b' = encodeInt64Opt(b, tag, v)
       /\ last' = Call("encodeInt64Opt", tag, v)
  /\ EncFrame

Call_encodeString ==
  /\ last.op = "none"
  /\ \E tag \in TagInputs, x \in StringInputs :
       /\ b' = encodeString(b, tag, x)
       /\ last' = Call("encodeString", tag, x)
  /\ EncFrame

Call_encodeStrings ==
  /\ last.op = "none"
  /\ \E tag \in TagInputs, x \in SeqsUpTo({<<>>, StrWall}, MaxLen) :
       /\ b' = encodeStrings(b, tag, x)
       /\ last' = Call("encodeStrings", tag, x)
  /\ EncFrame

Call_encodeBool ==
  /\ last.op = "none"
  /\ \E tag \in TagInputs, x \in BOOLEAN :
       /\ b' = encodeBool(b, tag, x)
       /\ last' = Call("encodeBool", tag, x)
  /\ EncFrame

Call_encodeBoolOpt ==
  /\ last.op = "none"
  /\ \E tag \in TagInputs, x \in BOOLEAN :
       /\ b' = encodeBoolOpt(b, tag, x)
       /\ last' = Call("encodeBoolOpt", tag, x)
  /\ EncFrame

Call_encodeMessage ==
  /\ last.op = "none"
  /\ \E tag \in TagInputs, m \in MessageInputs :
       /\ b' = encodeMessage(b, tag, ValueType_encode(<<>>, m))
       /\ last' = Call("encodeMessage", tag, m)
  /\ EncFrame

NextEnc ==
  \/ Call_encodeVarint
  \/ Call_encodeLength
  \/ Call_encodeUint64
  \/ Call_encodeUint64s
  \/ Call_encodeUint64Opt
  \/ Call_encodeInt64
  \/ Call_encodeInt64s
  \/ Call_encodeInt64Opt
  \/ Call_encodeString
  \/ Call_encodeStrings
  \/ Call_encodeBool
  \/ Call_encodeBoolOpt
  \/ Call_encodeMessage

SpecEnc == InitEnc /\ [][NextEnc]_vars

\* the bytes the call appended
Appended == SubSeq(b, Len(last.pre) + 1, Len(b))

PrefixKept == Len(b) >= Len(last.pre) /\ SubSeq(b, 1, Len(last.pre)) = last.pre

-----------------------------------------------------------------------------
(* Properties of the wire encoder, checked under SpecEnc *)

\* C5: varint round trip.  Reading one varint at the first byte that
\* encodeVarint(v) appended yields exactly v and stops right after the last
\* appended byte; the bytes the buffer held before are untouched.
C5_VarintRoundTrip ==
  last.op = "encodeVarint" =>
    LET r == ReadVarint(b, Len(last.pre) + 1)
    IN  /\ PrefixKept
        /\ r.ok
        /\ r.value = last.x
        /\ r.next = Len(b) + 1

\* the round trip of 2^64 - 1, which takes ten bytes
C5_Witness ==
  /\ last.op = "encodeVarint"
  /\ last.x = U64Pow2Minus1(64)
  /\ Len(Appended) = 10
  /\ ReadVarint(b, Len(last.pre) + 1).value = U64Pow2Minus1(64)

\* the key a field of the given tag and wire type starts with
KeyOf(tag, wire) == U64(tag * 8 + wire)

\* x as uint64_t values: the elements themselves (encodeUint64s) or their
\* two's complement bit patterns (encodeInt64s)
ElemsAsU64 ==
  IF last.op = "encodeInt64s"
    THEN [i \in 1..Len(last.x) |-> Int64ToUint64(last.x[i])]
    ELSE last.x

\* key, x[1], key, x[2], ...: what reading an unpacked repeated field yields
RECURSIVE Interleave(_, _, _)
Interleave(key, x, i) ==
  IF i > Len(x) THEN <<>> ELSE <<key, x[i]>> \o Interleave(key, x, i + 1)

\* C7: packed threshold.  With at most 2 elements encodeUint64s / encodeInt64s
\* append one varint field with key (tag<<3)|0 per element, in order, and
\* nothing for an empty sequence; with more than 2 they append one field with
\* key (tag<<3)|2, whose length prefix is the payload size and whose payload
\* is the elements' varints in order.
C7_PackedThreshold ==
  last.op \in {"encodeUint64s", "encodeInt64s"} =>
    \A x \in {ElemsAsU64} :
      /\ PrefixKept
      /\ IF Len(x) <= 2
           THEN \A r \in {ReadVarints(b, Len(last.pre) + 1, 2 * Len(x), <<>>)} :
                  /\ r.ok
                  /\ r.values = Interleave(KeyOf(last.tag, 0), x, 1)
                  /\ r.next = Len(b) + 1
           ELSE \A h \in {ReadVarints(b, Len(last.pre) + 1, 2, <<>>)} :
                  /\ h.ok
                  /\ h.values[1] = KeyOf(last.tag, 2)
                  /\ FitsNat31(h.values[2])
                  /\ Nat31(h.values[2]) = Len(b) - h.next + 1
                  /\ \A r \in {ReadVarints(b, h.next, Len(x), <<>>)} :
                       /\ r.ok
                       /\ r.values = x
                       /\ r.next = Len(b) + 1

\* a packed call: three elements, one length-delimited field
C7_Witness ==
  /\ last.op = "encodeUint64s"
  /\ Len(last.x) = 3
  /\ last.x[3] = U64Pow2Minus1(64)
  /\ ReadVarint(b, Len(last.pre) + 1).value = KeyOf(last.tag, 2)

\* C8: optional suppression.  encodeUint64Opt(tag, 0), encodeInt64Opt(tag, 0)
\* and encodeBoolOpt(tag, false) leave the buffer as it was; for any other
\* value they append the bytes encodeUint64 / encodeInt64 / encodeBool append
\* for the same tag and value.
C8_OptionalSuppression ==
  /\ last.op = "encodeUint64Opt" =>
       b = IF last.x = U64Zero THEN last.pre
           ELSE encodeUint64(last.pre, last.tag, last.x)
  /\ last.op = "encodeInt64Opt" =>
       b = IF last.x = 0 THEN last.pre
           ELSE encodeInt64(last.pre, last.tag, last.x)
  /\ last.op = "encodeBoolOpt" =>
       b = IF last.x = FALSE THEN last.pre
           ELSE encodeBool(last.pre, last.tag, last.x)

\* a suppressed zero on a buffer that already holds bytes
C8_Witness ==
  /\ last.op = "encodeUint64Opt"
  /\ last.x = U64Zero
  /\ last.pre # <<>>
  /\ b = last.pre

\* C10: varint byte form.  encodeVarint appends exactly the reference
\* encoder's bytes: every byte but the last has the high bit set, the last is
\* below 128, and there are at most 10.
C10_VarintByteForm ==
  last.op = "encodeVarint" =>
    /\ b = ReferenceVarint(last.pre, last.x)
    /\ Len(Appended) \in 1..10
    /\ \A i \in 1..Len(Appended) :
         IF i < Len(Appended) THEN Appended[i] \in 128..255
                              ELSE Appended[i] \in 0..127

\* a value whose low byte has bit 7 set, where x & 0xFF and x & 0x7F differ
C10_Witness ==
  /\ last.op = "encodeVarint"
  /\ last.x = U64(255)
  /\ Appended = <<255, 1>>

-----------------------------------------------------------------------------
(* Properties of the Profile builder, checked under Spec *)

FunctionTuple(node) == <<node.fileID, node.name>>

LocationTuple(node) ==
  <<node.fileID, node.lineNumber, node.columnNumber, node.name>>

\* the call before the last one
Previous == history[Len(history) - 1]

\* C1: function dedup idempotence.  When getFunctionId is called twice in a
\* row with nodes of the same (fileID, name), the second call returns the id
\* the first returned and leaves the Function list as long as it was.
C1_FunctionDedup ==
  (/\ Len(history) >= 2
   /\ last.op = "getFunctionId"
   /\ Previous.op = "getFunctionId"
   /\ FunctionTuple(last.x) = FunctionTuple(Previous.x))
  => /\ last.ret = Previous.ret
     /\ Len(p.function) = Len(last.pre.function)

\* C2: location dedup idempotence.  When getLocationId is called twice in a
\* row with nodes of the same (fileID, lineNumber, columnNumber, name), the
\* second call returns the id the first returned and leaves the Location
\* list as long as it was.
C2_LocationDedup ==
  (/\ Len(history) >= 2
   /\ last.op = "getLocationId"
   /\ Previous.op = "getLocationId"
   /\ LocationTuple(last.x) = LocationTuple(Previous.x))
  => /\ last.ret = Previous.ret
     /\ Len(p.location) = Len(last.pre.location)

\* the 0-based position of s in table S (s occurs in S)
IndexIn(S, s) == (CHOOSE i \in 1..Len(S) : S[i] = s) - 1

\* C6: string interning.  The table starts with the empty string at index 0
\* (the first intern call of a fresh table); interning a string already in
\* the table returns the index it has and does not grow the table;
\* interning a new string returns the table's size and appends it; so the
\* strings are pairwise distinct and each maps to its insertion position.
C6_StringInterning ==
  /\ Len(p.strings) >= 1
  /\ p.strings[1] = <<>>
  /\ \A i, j \in 1..Len(p.strings) : p.strings[i] = p.strings[j] => i = j
  /\ DOMAIN p.stringIdMap = {p.strings[i] : i \in 1..Len(p.strings)}
  /\ \A i \in 1..Len(p.strings) : p.stringIdMap[p.strings[i]] = i - 1
  /\ last.op = "getStringId" =>
       LET S == last.pre.strings
       IN  IF \E i \in 1..Len(S) : S[i] = last.x
             THEN last.ret = IndexIn(S, last.x) /\ p.strings = S
             ELSE last.ret = Len(S) /\ p.strings = Append(S, last.x)

\* a string interned twice in a row: the second call is a hit
C6_Witness ==
  /\ Len(history) = 2
  /\ last.op = "getStringId"
  /\ Previous.op = "getStringId"
  /\ last.x = StrX
  /\ Previous.x = StrX
  /\ last.ret = Previous.ret
  /\ last.ret = Len(p.strings) - 1
  /\ p.strings = last.pre.strings

\* The top-level fields of an encoded message, read back from the bytes:
\* [ok, tags]: the field numbers in the order they occur
RECURSIVE ReadFields(_, _, _)
ReadFields(buf, pos, tags) ==
  IF pos > Len(buf) THEN [ok |-> pos = Len(buf) + 1, tags |-> tags]
  ELSE LET k == ReadVarint(buf, pos)
       IN  IF ~k.ok \/ ~FitsNat31(k.value) THEN [ok |-> FALSE, tags |-> tags]
           ELSE LET key == Nat31(k.value)
                    v == ReadVarint(buf, k.next)
                IN  IF ~v.ok THEN [ok |-> FALSE, tags |-> tags]
                    ELSE IF key % 8 = 0
                      THEN ReadFields(buf, v.next, Append(tags, key \div 8))
                    ELSE IF key % 8 = 2 /\ FitsNat31(v.value)
                      THEN ReadFields(buf, v.next + Nat31(v.value), Append(tags, key \div 8))
                    ELSE [ok |-> FALSE, tags |-> tags]

Occurs(tags, t) == \E i \in 1..Len(tags) : tags[i] = t

\* C9: field order of Profile::encode.  The top-level fields of an encoded
\* profile come in non-decreasing tag order, all within 1..14; the last one
\* is tag 14, present even though its value is zero; tags 7, 8, 9, 10 and 12
\* are present exactly when their value is not zero, and tag 11 exactly when
\* one of the period type's two string indices is not zero.
C9_EncodeFieldOrder ==
  pc = "encoded" =>
    \A r \in {ReadFields(b, 1, <<>>)} :
      LET tags == r.tags
      IN
        /\ r.ok
        /\ \A i \in 1..Len(tags) : tags[i] \in 1..14
        /\ \A i \in 1..(Len(tags) - 1) : tags[i] <= tags[i + 1]
        /\ Len(tags) >= 1
        /\ tags[Len(tags)] = 14
        /\ p.defaultSampleTypeX = 0
        /\ Occurs(tags, 7) <=> p.dropFramesX # 0
        /\ Occurs(tags, 8) <=> p.keepFramesX # 0
        /\ Occurs(tags, 9) <=> p.timeNanos # 0
        /\ Occurs(tags, 10) <=> p.durationNanos # 0
        /\ Occurs(tags, 12) <=> p.period # 0
        /\ Occurs(tags, 11) <=> (p.periodType.typeX # 0 \/ p.periodType.unitX # 0)

\* an encoded profile with samples whose scalars are all zero: the string
\* table (tag 6) is directly followed by tag 14
C9_Witness ==
  /\ pc = "encoded"
  /\ Len(p.sample) >= 1
  /\ p.periodType = ValueType(0, 0)
  /\ p.period = 0
  /\ LET tags == ReadFields(b, 1, <<>>).tags
     IN  /\ Len(tags) >= 2
         /\ tags[Len(tags)] = 14
         /\ tags[Len(tags) - 1] = 6
         /\ Occurs(tags, 2)

-----------------------------------------------------------------------------
(* Properties of the walks, checked under SpecWalk *)

NodeCount == Len(profile.parent)

\* the loop iteration that processed node i
IterationOf(i) == CHOOSE k \in 1..Len(history) : history[k].node = i

LocOf(i) == history[IterationOf(i)].loc

\* C3: shared call sites collapse.  After a whole walk there is one Location
\* per distinct (fileID, lineNumber, columnNumber, name) among the non-root
\* nodes and one Function per distinct (fileID, name); nodes with the same
\* location tuple got the same location id; and every node has Sample
\* entries of its own.
C3_SharedCallSitesCollapse ==
  pc = "done" =>
    /\ Len(p.location) =
         Cardinality({LocationTuple(profile.node[i]) : i \in 1..NodeCount})
    /\ Len(p.function) =
         Cardinality({FunctionTuple(profile.node[i]) : i \in 1..NodeCount})
    /\ \A i, j \in 1..NodeCount :
         LocationTuple(profile.node[i]) = LocationTuple(profile.node[j])
           => LocOf(i) = LocOf(j)
    /\ \A k, m \in 1..Len(history) :
         k < m => history[k].first + history[k].count <= history[m].first

\* the location ids of the ancestors of node i, parent first, root left out
RECURSIVE AncestorLocs(_)
AncestorLocs(i) ==
  IF profile.parent[i] = 0 THEN <<>>
  ELSE <<LocOf(profile.parent[i])>> \o AncestorLocs(profile.parent[i])

StringAt(x) == p.strings[x + 1]

\* C4: the result of a time-profile walk.  There is exactly one Sample per
\* non-root node; its location sequence is the node's own location id (the
\* id of a Location at the node's line, in the node's function) followed by
\* those of its ancestors from the parent up to the root's child; its values
\* are [hitCount, hitCount * samplingInterval]; it has no labels.  The
\* sample types are sample/count, then wall/microseconds.
C4_TimeWalkResult ==
  (pc = "done" /\ profile.kind = "time") =>
    /\ Len(p.sample) = NodeCount
    /\ Len(history) = NodeCount
    /\ \A i \in 1..NodeCount :
         /\ \E k \in 1..Len(history) : history[k].node = i
         /\ LET h == history[IterationOf(i)]
                s == p.sample[h.first]
                n == profile.node[i]
                l == p.location[h.loc]
                f == p.function[l.line[1].functionID]
            IN  /\ h.count = 1
                /\ \A k \in 1..Len(history) : history[k].first = h.first => k = IterationOf(i)
                /\ l.id = h.loc
                /\ l.line[1].line = n.lineNumber
                /\ StringAt(f.nameX) = n.name
                /\ StringAt(f.filenameX) = n.filename
                /\ s.locationID = <<h.loc>> \o AncestorLocs(i)
                /\ s.value = <<n.hitCount, n.hitCount * profile.interval>>
                /\ s.label = <<>>
    /\ Len(p.sampleType) = 2
    /\ StringAt(p.sampleType[1].typeX) = StrSample
    /\ StringAt(p.sampleType[1].unitX) = StrCount
    /\ StringAt(p.sampleType[2].typeX) = StrWall
    /\ StringAt(p.sampleType[2].unitX) = StrMicroseconds

\* a finished time walk of a chain of three nodes: the deepest node's
\* Sample carries three location ids
C4_Witness ==
  /\ pc = "done"
  /\ profile.kind = "time"
  /\ profile.parent = <<0, 1, 2>>
  /\ profile.interval = 1000
  /\ Len(p.sample) = 3
  /\ p.sample[3].locationID = <<3, 2, 1>>
  /\ p.sample[3].value[2] = profile.node[3].hitCount * 1000

-----------------------------------------------------------------------------
(* Further properties of the wire encoder, checked under SpecEnc *)

\* v mod 2^64 for an integer v with |v| < 2^31, byte by byte: byte i is
\* floor(v / 256^(i-1)) mod 256, and the sign fills the upper four bytes
Mod2To64(v) ==
  [i \in Word |->
     IF i <= 4 THEN (v \div (256 ^ (i - 1))) % 256
     ELSE IF v < 0 THEN 255 ELSE 0]

\* the reference varints of x[i..], one after the other
RECURSIVE ReferenceVarints(_, _)
ReferenceVarints(x, i) ==
  IF i > Len(x) THEN <<>>
  ELSE ReferenceVarint(<<>>, x[i]) \o ReferenceVarints(x, i + 1)

\* C11: two's complement, not zigzag.  encodeInt64(tag, x) appends the bytes
\* encodeUint64(tag, x mod 2^64) appends; the payload of a packed
\* encodeInt64s field is the varints of the elements mod 2^64, one after the
\* other, and the varint of a negative element is 10 bytes long.
C11_TwosComplement ==
  /\ last.op = "encodeInt64" =>
       /\ b = encodeUint64(last.pre, last.tag, Mod2To64(last.x))
       /\ last.x < 0 => Len(Appended) = Len(ReferenceVarint(<<>>, KeyOf(last.tag, 0))) + 10
  /\ (last.op = "encodeInt64s" /\ Len(last.x) > 2) =>
       \A x \in {[i \in 1..Len(last.x) |-> Mod2To64(last.x[i])]} :
         \A h \in {ReadVarints(b, Len(last.pre) + 1, 2, <<>>)} :
           /\ h.ok
           /\ SubSeq(b, h.next, Len(b)) = ReferenceVarints(x, 1)
           /\ \A i \in 1..Len(x) :
                last.x[i] < 0 => Len(ReferenceVarint(<<>>, x[i])) = 10

\* a packed field with -1 in it: its ten bytes are 255 nine times, then 1
C11_Witness ==
  /\ last.op = "encodeInt64s"
  /\ last.x = <<1, -1, 0>>
  /\ last.pre = <<>>
  /\ last.tag = 1
  /\ b = <<10, 12, 1, 255, 255, 255, 255, 255, 255, 255, 255, 255, 1, 0>>

-----------------------------------------------------------------------------
(* Further properties of the walks, checked under SpecWalk *)

\* the children of x, in their order
ChildrenOf(x) ==
  SelectSeq([i \in 1..NodeCount |-> i], LAMBDA i : profile.parent[i] = x)

\* the Profile as it is when the loop starts
BuiltProfile ==
  IF profile.kind = "time"
    THEN Profile_addSampleType(
           Profile_addSampleType(
             Profile_Profile(StrWall, StrMicroseconds, profile.interval,
                             profile.startTimeNanos, profile.runMicros * 1000,
                             <<>>, <<>>),
             StrSample, StrCount),
           StrWall, StrMicroseconds)
    ELSE Profile_addSampleType(
           Profile_addSampleType(
             Profile_Profile(StrSpace, StrBytes, profile.interval,
                             profile.startTimeNanos, 0, <<>>, <<>>),
             StrObjects, StrCount),
           StrSpace, StrBytes)

WrapNode(i) ==
  IF profile.kind = "time" THEN TimeNode(profile.node[i], profile.interval)
                           ELSE HeapNode(profile.node[i])

WorkOf(children, stack) ==
  [j \in 1..Len(children) |-> [node |-> children[j], stack |-> stack]]

\* the loop after n iterations, taking the last entry of the work list
\* (order "stack") or the first (order "queue") each time; once the work
\* list is empty nothing changes any more
RECURSIVE Replay(_, _)
Replay(order, n) ==
  IF n = 0
    THEN [p |-> BuiltProfile, work |-> WorkOf(ChildrenOf(0), <<>>) \o <<>>,
          history |-> <<>>]
    ELSE LET before == Replay(order, n - 1)
             P == before.p
             work == before.work
             entry == IF order = "stack" THEN work[Len(work)] ELSE work[1]
             rest == IF order = "stack" THEN SubSeq(work, 1, Len(work) - 1)
                                        ELSE Tail(work)
             r == Profile_addSample(P, WrapNode(entry.node), entry.stack)
             h == [node |-> entry.node, stack |-> entry.stack, loc |-> r.ret,
                   first |-> Len(P.sample) + 1,
                   count |-> Len(r.p.sample) - Len(P.sample)]
         IN  IF work = <<>> THEN before
             ELSE [p |-> r.p,
                   work |-> rest \o WorkOf(ChildrenOf(entry.node),
                                           <<r.ret>> \o entry.stack),
                   history |-> Append(before.history, h)]

\* the loop run to its end: every node is pushed once, so NodeCount
\* iterations empty the work list
ReplayAll(order) ==
  LET w == Replay(order, NodeCount)
  IN  [p |-> w.p, history |-> w.history]

QueueWalk == ReplayAll("queue")

StackWalk == ReplayAll("stack")

\* the iteration of walk w that processed node i
IterationIn(w, i) == w.history[CHOOSE k \in 1..Len(w.history) : w.history[k].node = i]

\* the Samples node i added in walk w
SamplesIn(w, i) ==
  LET h == IterationIn(w, i)
  IN  SubSeq(w.p.sample, h.first, h.first + h.count - 1)

FunctionIdIn(w, i) == w.p.location[IterationIn(w, i).loc].line[1].functionID

\* the walk the code made
CodeWalk == [p |-> p, history |-> history]

\* C12: visitation-order independence.  After a whole walk, every node has
\* the location id and the function id a first-in-first-out walk of the
\* same tree assigns to it, the Location and Function lists are those of
\* that walk, and each node's Samples have the same location sequences.
C12_OrderIndependence ==
  pc = "done" =>
    \A q \in {QueueWalk} :
      /\ \A i \in 1..NodeCount :
           /\ IterationIn(q, i).loc = LocOf(i)
           /\ FunctionIdIn(q, i) = FunctionIdIn(CodeWalk, i)
           /\ [k \in 1..Len(SamplesIn(q, i)) |-> SamplesIn(q, i)[k].locationID]
                = [k \in 1..Len(SamplesIn(CodeWalk, i)) |->
                     SamplesIn(CodeWalk, i)[k].locationID]
      /\ q.p.location = p.location
      /\ q.p.function = p.function

\* what location id x of Profile P stands for: line, function name, file
\* name, start line, mapping and address
ResolveLocation(P, x) ==
  LET l == P.location[x]
      f == P.function[l.line[1].functionID]
  IN  <<Len(l.line), l.line[1].line, P.strings[f.nameX + 1],
        P.strings[f.systemNameX + 1], P.strings[f.filenameX + 1], f.startLine,
        l.mappingID, l.address, l.isFolded>>

\* a Sample of Profile P with ids and string indices resolved
ResolveSample(P, s) ==
  [locations |-> [k \in 1..Len(s.locationID) |-> ResolveLocation(P, s.locationID[k])],
   value |-> s.value,
   label |-> [k \in 1..Len(s.label) |->
                <<P.strings[s.label[k].keyX + 1], s.label[k].strX,
                  s.label[k].num, P.strings[s.label[k].unitX + 1]>>]]

ResolvedSamplesIn(w, i) ==
  [k \in 1..Len(SamplesIn(w, i)) |-> ResolveSample(w.p, SamplesIn(w, i)[k])]

\* C12 as amended: the two orders agree up to the numbering.  After a
\* whole walk the Location, Function, Sample and string lists are as long as
\* those of a first-in-first-out walk of the same tree, and each node's
\* Samples are the same once location ids are resolved to (line, function
\* name, file name, start line) and string indices to strings.
C12_OrderIndependenceResolved ==
  pc = "done" =>
    \A q \in {QueueWalk} :
      /\ StackWalk = CodeWalk
      /\ Len(q.p.location) = Len(p.location)
      /\ Len(q.p.function) = Len(p.function)
      /\ Len(q.p.sample) = Len(p.sample)
      /\ Len(q.p.strings) = Len(p.strings)
      /\ q.p.sampleType = p.sampleType
      /\ \A i \in 1..NodeCount :
           ResolvedSamplesIn(q, i) = ResolvedSamplesIn(CodeWalk, i)

\* a finished walk of a root with two children, each with a child of its
\* own (the second child's first): the two orders number the nodes differently
C12_Witness ==
  /\ pc = "done"
  /\ profile.parent = <<0, 0, 2>>
  /\ profile.node[1] # profile.node[2]
  /\ IterationIn(QueueWalk, 1).loc # LocOf(1)
  /\ ResolvedSamplesIn(QueueWalk, 3) = ResolvedSamplesIn(CodeWalk, 3)

\* how many iterations processed node i
Visits(i) == Cardinality({k \in 1..Len(history) : history[k].node = i})

\* C13: the walk terminates and visits each node once.  Every walk reaches
\* its end; there the work list is empty and every non-root node has been
\* handed to addSample exactly once, the root never; at most one iteration
\* processes a node at any time; and the buffer is written by encode only
\* at the end.
C13_WalkTerminates ==
  /\ <>(pc = "done")
  /\ [](/\ \A k \in 1..Len(history) : history[k].node \in 1..NodeCount
        /\ \A i \in 1..NodeCount : Visits(i) <= 1
        /\ pc # "done" => b = <<>>
        /\ pc = "done" =>
             /\ entries = <<>>
             /\ \A i \in 1..NodeCount : Visits(i) = 1
             /\ Len(history) = NodeCount
             /\ b = Profile_encode(<<>>, p))

\* the end of the walk of a root with three children
C13_Witness ==
  /\ pc = "done"
  /\ profile.parent = <<0, 0, 0>>
  /\ entries = <<>>
  /\ {history[k].node : k \in 1..Len(history)} = {1, 2, 3}
  /\ Len(b) > 0

\* C14: heap-profile samples.  In a heap walk every iteration appends one
\* Sample per allocation record of its node, in record order and right after
\* the Samples appended before; each has the node's location id followed by
\* the stack the node came with, the values [count, size * count] and one
\* label: key "allocation", no string value, number size, unit "bytes".  A
\* node without allocation records appends nothing.
C14_HeapSamples ==
  profile.kind = "heap" =>
    /\ \A k \in 1..Len(history) :
         LET h == history[k]
             n == profile.node[h.node]
         IN  /\ h.count = Len(n.allocations)
             /\ h.first = IF k = 1 THEN 1
                          ELSE history[k - 1].first + history[k - 1].count
             /\ \A j \in 1..h.count :
                  LET s == p.sample[h.first + j - 1]
                      a == n.allocations[j]
                  IN  /\ s.locationID = <<h.loc>> \o h.stack
                      /\ s.value = <<a.count, a.size * a.count>>
                      /\ Len(s.label) = 1
                      /\ StringAt(s.label[1].keyX) = StrAllocation
                      /\ s.label[1].strX = 0
                      /\ s.label[1].num = a.size
                      /\ StringAt(s.label[1].unitX) = StrBytes
    /\ Len(p.sample) =
         IF Len(history) = 0 THEN 0
         ELSE history[Len(history)].first + history[Len(history)].count - 1

\* a finished heap walk of bar (two allocation records) and its child, foo
\* at line 12 (none): two Samples, both bar's
C14_Witness ==
  /\ pc = "done"
  /\ profile.kind = "heap"
  /\ profile.parent = <<0, 1>>
  /\ profile.node = <<V8Bar, V8FooLine12>>
  /\ Len(p.sample) = 2
  /\ p.sample[1].value = <<1, 16>>
  /\ p.sample[2].value = <<3, 24>>
  /\ p.sample[2].label[1].num = 8
  /\ history[2].count = 0

-----------------------------------------------------------------------------
(* Further properties of the Profile builder, checked under Spec *)

\* s is the beginning of t
IsPrefix(s, t) == Len(s) <= Len(t) /\ SubSeq(t, 1, Len(s)) = s

\* C15: string table invariant.  In every state from the constructor on,
\* entry 0 of the string table is the empty string, no string is at two
\* indices and the map holds exactly the pairs (strings[i], i); and every
\* step keeps the strings, Functions, Locations and Samples there were, in
\* place and unchanged, before whatever it appends.
C15_StringTableInvariant ==
  /\ [](/\ Len(p.strings) >= 1
        /\ p.strings[1] = <<>>
        /\ \A i, j \in 1..Len(p.strings) : p.strings[i] = p.strings[j] => i = j
        /\ DOMAIN p.stringIdMap = {p.strings[i] : i \in 1..Len(p.strings)}
        /\ \A i \in 1..Len(p.strings) : p.stringIdMap[p.strings[i]] = i - 1)
  /\ [][/\ IsPrefix(p.strings, p'.strings)
        /\ IsPrefix(p.function, p'.function)
        /\ IsPrefix(p.location, p'.location)
        /\ IsPrefix(p.sample, p'.sample)]_vars

\* a second addSample: it appended a string, a Function, a Location and
\* Samples behind those of the first
C15_Witness ==
  /\ Len(history) = 2
  /\ history[1].op = "addSample"
  /\ last.op = "addSample"
  /\ Len(last.pre.strings) < Len(p.strings)
  /\ Len(last.pre.function) = 1 /\ Len(p.function) = 2
  /\ Len(last.pre.location) = 1 /\ Len(p.location) = 2
  /\ Len(last.pre.sample) >= 1 /\ Len(p.sample) > Len(last.pre.sample)
  /\ IsPrefix(last.pre.sample, p.sample)

\* C16: ids are sequential and start at 1.  The k-th Function has id k and
\* the k-th Location has id k (so ids are distinct and never 0); every
\* Location has exactly one Line, mapping id 0, address 0 and is not folded.
C16_SequentialIds ==
  /\ \A k \in 1..Len(p.function) : p.function[k].id = k
  /\ \A k \in 1..Len(p.location) :
       /\ p.location[k].id = k
       /\ Len(p.location[k].line) = 1
       /\ p.location[k].mappingID = 0
       /\ p.location[k].address = 0
       /\ p.location[k].isFolded = FALSE

\* two Locations and the two Functions made with them
C16_Witness ==
  /\ Len(p.function) = 2
  /\ Len(p.location) = 2
  /\ p.function[2].id = 2
  /\ p.location[2].id = 2
  /\ p.location[2].line[1].functionID = 2

-----------------------------------------------------------------------------
(* Properties of the built profile, checked under SpecWalk *)

\* C17: value count matches the declared sample types.  Once the loop has
\* started there are two sample types, a count (unit "count") first and an
\* amount second (wall / microseconds or space / bytes), and every Sample
\* has two values in that order: the hit count and hit count * interval of
\* its node in a time profile, the count and size * count of one of its
\* node's allocation records in a heap profile.
C17_ValueCountMatchesTypes ==
  pc \in {"loop", "done"} =>
    /\ Len(p.sampleType) = 2
    /\ StringAt(p.sampleType[1].unitX) = StrCount
    /\ StringAt(p.sampleType[1].typeX) =
         (IF profile.kind = "time" THEN StrSample ELSE StrObjects)
    /\ <<StringAt(p.sampleType[2].typeX), StringAt(p.sampleType[2].unitX)>> =
         (IF profile.kind = "time" THEN <<StrWall, StrMicroseconds>>
                                   ELSE <<StrSpace, StrBytes>>)
    /\ \A k \in 1..Len(p.sample) : Len(p.sample[k].value) = Len(p.sampleType)
    /\ \A k \in 1..Len(history) :
         \A j \in 1..history[k].count :
           LET v == p.sample[history[k].first + j - 1].value
               n == profile.node[history[k].node]
           IN  IF profile.kind = "time"
                 THEN v[1] = n.hitCount /\ v[2] = n.hitCount * profile.interval
                 ELSE v[1] = n.allocations[j].count
                      /\ v[2] = n.allocations[j].size * n.allocations[j].count
    /\ \A k \in 1..Len(p.sample) :
         \E m \in 1..Len(history) :
           k \in history[m].first..(history[m].first + history[m].count - 1)

\* a finished time walk whose first Sample is foo's: 5 hits, 5000 microseconds
C17_Witness ==
  /\ pc = "done"
  /\ profile.kind = "time"
  /\ profile.interval = 1000
  /\ Len(p.sample) >= 2
  /\ Len(p.sampleType) = 2
  /\ p.sample[1].value = <<5, 5000>>

-----------------------------------------------------------------------------
(* Length-delimited fields, checked under SpecEnc *)

\* what the field written by the last call has to carry
PayloadOf ==
  CASE last.op = "encodeMessage" -> ValueType_encode(<<>>, last.x)
    [] last.op = "encodeString" -> last.x
    [] OTHER -> ReferenceVarints(ElemsAsU64, 1)

\* C18: length prefixes are exact.  encodeMessage, encodeString and a packed
\* encodeUint64s / encodeInt64s call append the varint of (tag<<3)|2, the
\* varint of the payload's length and then the payload, nothing else: the
\* entity's own encoding, the string's bytes, or the elements' varints; the
\* bytes the buffer held before stay as they were.
C18_LengthPrefixExact ==
  (\/ last.op \in {"encodeMessage", "encodeString"}
   \/ (last.op \in {"encodeUint64s", "encodeInt64s"} /\ Len(last.x) > 2))
  => \A h \in {ReadVarints(b, Len(last.pre) + 1, 2, <<>>)} :
     \A payload \in {PayloadOf} :
       /\ PrefixKept
       /\ h.ok
       /\ h.values[1] = KeyOf(last.tag, 2)
       /\ SubSeq(b, Len(last.pre) + 1, h.next - 1) =
            ReferenceVarint(ReferenceVarint(<<>>, KeyOf(last.tag, 2)),
                            h.values[2])
       /\ FitsNat31(h.values[2])
       /\ Nat31(h.values[2]) = Len(payload)
       /\ Len(b) = h.next - 1 + Len(payload)
       /\ SubSeq(b, h.next, Len(b)) = payload

\* a message of three bytes under a tag whose key takes three bytes, written
\* behind bytes already in the buffer
C18_Witness ==
  /\ last.op = "encodeMessage"
  /\ last.tag = 2048
  /\ last.pre # <<>>
  /\ Len(ValueType_encode(<<>>, last.x)) = 3
  /\ Len(Appended) = 3 + 1 + 3
  /\ SubSeq(Appended, 1, 4) = <<130, 128, 1, 3>>

-----------------------------------------------------------------------------
(* Further properties of the built profile, checked under SpecWalk *)

LocationIds == {p.location[m].id : m \in 1..Len(p.location)}

FunctionIds == {p.function[m].id : m \in 1..Len(p.function)}

StringIndices == 0..(Len(p.strings) - 1)

\* C19: referential integrity.  From the constructor on, every location id
\* in a Sample is the id of a Location, every Line's function id is the id
\* of a Function, and every string index of the Profile, its sample types,
\* its period type, its Functions and its Labels is an index of the string
\* table.
C19_ReferentialIntegrity ==
  pc # "start" =>
    /\ \A k \in 1..Len(p.sample) :
         /\ \A j \in 1..Len(p.sample[k].locationID) :
              p.sample[k].locationID[j] \in LocationIds
         /\ \A j \in 1..Len(p.sample[k].label) :
              /\ p.sample[k].label[j].keyX \in StringIndices
              /\ p.sample[k].label[j].strX \in StringIndices
              /\ p.sample[k].label[j].unitX \in StringIndices
    /\ \A k \in 1..Len(p.location) :
         \A j \in 1..Len(p.location[k].line) :
           p.location[k].line[j].functionID \in FunctionIds
    /\ \A k \in 1..Len(p.function) :
         /\ p.function[k].nameX \in StringIndices
         /\ p.function[k].systemNameX \in StringIndices
         /\ p.function[k].filenameX \in StringIndices
    /\ \A k \in 1..Len(p.sampleType) :
         /\ p.sampleType[k].typeX \in StringIndices
         /\ p.sampleType[k].unitX \in StringIndices
    /\ p.periodType.typeX \in StringIndices
    /\ p.periodType.unitX \in StringIndices
    /\ p.dropFramesX \in StringIndices
    /\ p.keepFramesX \in StringIndices

\* a finished heap walk of a chain of three bar nodes: the last Samples
\* name three Locations and carry a label
C19_Witness ==
  /\ pc = "done"
  /\ profile.kind = "heap"
  /\ profile.parent = <<0, 1, 2>>
  /\ profile.node = <<V8Bar, V8Bar, V8Bar>>
  /\ Len(p.sample) = 6
  /\ p.sample[6].locationID = <<3, 2, 1>>
  /\ LocationIds = {1, 2, 3}
  /\ p.location[3].line[1].functionID = 3
  /\ StringAt(p.sample[6].label[1].keyX) = StrAllocation

Visited(i) == \E k \in 1..Len(history) : history[k].node = i

\* the nodes above node i, the root left out
RECURSIVE AncestorsOf(_)
AncestorsOf(i) ==
  IF profile.parent[i] = 0 THEN {}
  ELSE {profile.parent[i]} \cup AncestorsOf(profile.parent[i])

\* the stack a child of node j is to be pushed with
StackBelow(j) ==
  IF j = 0 THEN <<>>
  ELSE <<LocOf(j)>> \o history[IterationOf(j)].stack

\* C20: a parent's Samples precede its descendants'.  At any time of a
\* walk, every processed node's ancestors were processed in earlier
\* iterations, and their Samples lie before the node's in the Sample list;
\* every entry on the work list and every processed node below the root has
\* a processed parent, and its stack is the parent's location id, which is
\* the id of a Location, followed by the stack the parent came with.
C20_ParentSamplesFirst ==
  pc \in {"loop", "done"} =>
    /\ \A i \in 1..NodeCount :
         Visited(i) =>
           /\ history[IterationOf(i)].stack = StackBelow(profile.parent[i])
           /\ \A j \in AncestorsOf(i) :
                /\ Visited(j)
                /\ IterationOf(j) < IterationOf(i)
                /\ history[IterationOf(j)].first + history[IterationOf(j)].count
                     <= history[IterationOf(i)].first
                /\ LocOf(j) \in LocationIds
    /\ \A e \in 1..Len(entries) :
         LET j == profile.parent[entries[e].node]
         IN  /\ j # 0 => (Visited(j) /\ LocOf(j) \in LocationIds)
             /\ entries[e].stack = StackBelow(j)
             /\ j # 0 => entries[e].stack[1] = LocOf(j)

\* two nodes of a chain processed, the third on the work list with both
\* their location ids, the parent's first
C20_Witness ==
  /\ pc = "loop"
  /\ profile.parent = <<0, 1, 2>>
  /\ Len(history) = 2
  /\ Len(p.sample) >= 2
  /\ entries = <<[node |-> 3, stack |-> <<2, 1>>]>>

-----------------------------------------------------------------------------
(* The returned buffer, checked under SpecWalk *)

\* the fields of the Profile that encode writes for every profile: the
\* string table, which holds "" from the constructor on, and field 14
AlwaysEncoded(P) ==
  encodeInt64(encodeStrings(<<>>, 6, P.strings), 14, P.defaultSampleTypeX)

\* C21: the buffer serializeHeapProfile / serializeTimeProfile returns is
\* never empty, for every tree, a root without children included, and every
\* period, start time and duration: it holds at least one byte, so at(0) is
\* in range.  It holds at least the bytes of the string table and of field 14.
C21_BufferNeverEmpty ==
  pc = "done" =>
    /\ Len(b) >= 1
    /\ 1 \in DOMAIN b
    /\ b[1] \in Byte
    /\ Len(b) >= Len(AlwaysEncoded(p))
    /\ Len(AlwaysEncoded(p)) >= 4

\* the heap profile of a root without children, with period and start time
\* 0: no Sample, no optional field, and the buffer returned has bytes
C21_Witness ==
  /\ pc = "done"
  /\ profile.kind = "heap"
  /\ profile.parent = <<>>
  /\ profile.interval = 0
  /\ profile.startTimeNanos = 0
  /\ p.sample = <<>>
  /\ Len(b) >= 1

=============================================================================
